---- MODULE Spec2Model ----
(***************************************************************************)
(* Model of ros_spinnaker_interface: the Poisson-Rate interface            *)
(* (ros_spinnaker_poisson_rate_interface.py) and the transfer-function     *)
(* policies (transfer_functions.py).                                       *)
(*                                                                         *)
(* Spec        the Poisson-Rate interface: construction, the start/resume  *)
(*             callback, the worker process and its rate channel.          *)
(* PolicySpec  the transfer-function policies driven by a sink engine.     *)
(* PoissonSpec the SpikeSourcePoisson policy, request after request.       *)
(* SourceSpec  the SpikeSourceConstantRate and SpikeSourceNumNeurons       *)
(*             policies, request after request.                            *)
(* ConvSpec    the SpikeSinkConvolution policy under spikes and ticks.     *)
(* WindowSpec  the SpikeSinkSpikesPerWindow policy under spikes and ticks. *)
(* MultiSpec   the SpikeSinkSmoothingMulti policy under spikes and ticks.  *)
(* HistorySpec the neurons' spike histories under the sinks' on_update.    *)
(* WorkerSpec  one interface with its single worker, the loop being fair.  *)
(***************************************************************************)
EXTENDS Integers, Sequences, FiniteSets, TLC

(* ------------------------------ bounds -------------------------------- *)
MaxInputs == 4          \* constructions, notifications and messages explored
MaxNeurons == 2         \* largest n_neurons argument
MaxMsgLen == 2          \* longest rate vector
MaxRate == 2            \* first entry of a rate vector, 1..MaxRate
MaxOps == 3             \* spike events, sink ticks and source requests explored
MaxInitialOutput == 1   \* initial output values 0..MaxInitialOutput
MaxInterval == 1        \* drawn inter-spike intervals 0..MaxInterval
MaxRequests == 3        \* on_update requests to the stateless source policies
MaxMultiOps == 4        \* on_spike / on_update calls on the per-neuron sink
MaxConvOps == 4         \* on_spike / on_update calls on the convolution sinks

(* --------------------------- program constants ------------------------ *)
BasePort == 30000
DefaultNeurons == 1
DecayNum == 19          \* 0.95 = DecayNum / DecayDen
DecayDen == 20
SpikeIncrement == 1

(* Python's None / an omitted argument, and a present value. *)
None == <<>>
Some(x) == <<x>>
Val(o) == o[1]

VARIABLES
    instance_counter,   \* next value of the class-level itertools.count()
    interfaces,         \* the constructed interfaces, in construction order
    workers,            \* the worker processes, in creation order
    sim,                \* the substrate's run state
    conn_ok,            \* whether the control connection accepts set_rates
    proc_alive,         \* whether the owning process is alive
    received,           \* inbound messages delivered so far
    sinks,              \* the sink engines, one per SpikeSinkSmoothing instance
    SpikeSinkSmoothing_ros_values,  \* the class attribute ros_values = []
    SpikeSourcePoisson_intervals,   \* the class attribute intervals = []
    source_out,         \* the interval last returned by each Poisson instance
    requests,           \* on_update requests made to the Poisson instances
    conv,               \* the sink engines of the SpikeSinkConvolution instances
    SpikeSinkConvolution_ros_values, \* the class attribute ros_values = []
    win,                \* the sink engine of a SpikeSinkSpikesPerWindow instance
    answers,            \* the on_update requests served by the stateless
                        \* source policies, each with the interval returned
    multi,              \* the sink engine of a SpikeSinkSmoothingMulti
                        \* instance and the list objects it has handled
    hist                \* the neurons (key, spike_times) of a sink population
                        \* and the policy that is given them on every tick

ifvars == <<instance_counter, interfaces, workers, sim, conn_ok, proc_alive,
            received>>
polvars == <<sinks, SpikeSinkSmoothing_ros_values,
             SpikeSourcePoisson_intervals, source_out, requests>>
extvars == <<conv, SpikeSinkConvolution_ros_values, win, answers, multi, hist>>
vars == <<instance_counter, interfaces, workers, sim, conn_ok, proc_alive,
          received, sinks, SpikeSinkSmoothing_ros_values,
          SpikeSourcePoisson_intervals, source_out, requests,
          conv, SpikeSinkConvolution_ros_values, win, answers,
          multi,
          hist>>

Populations == {None, Some("poisson_input")}
NeuronArgs == {None} \cup {Some(n) : n \in 0..MaxNeurons}
Rates == 1..MaxRate
(* ros_msg.data: rate vectors of every length, entries pairwise distinct *)
Messages == {[k \in 1..len |-> r + k - 1] : len \in 1..MaxMsgLen, r \in Rates}

(* self.n_neurons = n_neurons if n_neurons is not None else 1 *)
NNeurons(n_arg) == IF n_arg # None THEN Val(n_arg) ELSE DefaultNeurons

(* self.poisson_rate_control_port = 30000 + self.interface_id *)
ControlPort(id) == BasePort + id

(* next(self._instance_counter): the counter after handing out one id.  *)
(* AdvanceFresh: a count() created per instance, which never advances     *)
(* the shared one.                                                        *)
AdvanceFresh(c) == c
AdvanceCounter(c) == c + 1

(* processes that exist once __init__ returns: __init__ creates none.   *)
(* WorkersEager: the worker started from __init__ itself.                 *)
WorkersEager(ws, i) == Append(ws, [iface |-> i, pc |-> "start",
                                   is_shutdown |-> FALSE, ros_msg |-> None,
                                   exc |-> "none"])
WorkersAfterInit(ws, i) == ws

(* [(i, ros_msg[i]) for i in range(self.n_neurons)]; Python indexes from 0. *)
(* RatePairs_all: one pair for every entry of the message,               *)
(* range(len(ros_msg)).                                                   *)
RatePairs_all(msg, n) == [k \in 1..Len(msg) |-> <<k - 1, msg[k]>>]
RatePairs(msg, n) == [k \in 1..n |-> <<k - 1, msg[k]>>]

(* ---------------- transfer functions (transfer_functions.py) ---------- *)

(* An output value is the rational num / DecayDen^exp; 0.95 is taken as  *)
(* DecayNum / DecayDen, so + 1 and * 0.95 are computed without rounding.  *)
RECURSIVE Pow(_, _)
Pow(b, k) == IF k = 0 THEN 1 ELSE b * Pow(b, k - 1)
Num(x) == [num |-> x, exp |-> 0]
Plus(v, k) == [num |-> v.num + k * Pow(DecayDen, v.exp), exp |-> v.exp]
TimesDecay(v) == [num |-> v.num * DecayNum, exp |-> v.exp + 1]
SameValue(a, b) == a.num * Pow(DecayDen, b.exp) = b.num * Pow(DecayDen, a.exp)

SinkInstances == {1, 2}      \* two SpikeSinkSmoothing instances
SourceInstances == {1, 2}    \* two SpikeSourcePoisson instances
NeuronIds == 0..(MaxNeurons - 1)
SpikeTimes == 0..1
RosValues == {None, Some(-1), Some(0), Some(2)}

(* SpikeSinkSmoothing.on_spike: the value returned.                      *)
(* ..._unchanged: the increment left out.                                 *)
SpikeSinkSmoothing_on_spike_unchanged(spike_time, neuron_id, curr_ros_value) ==
    curr_ros_value
SpikeSinkSmoothing_on_spike(spike_time, neuron_id, curr_ros_value) ==
    Plus(curr_ros_value, SpikeIncrement)

(* SpikeSinkSmoothing.on_update: the value returned.                     *)
(* ..._no_decay: the multiplication by 0.95 left out.                     *)
SpikeSinkSmoothing_on_update_no_decay(neurons, sim_time, curr_ros_value) ==
    curr_ros_value
SpikeSinkSmoothing_on_update(neurons, sim_time, curr_ros_value) ==
    TimesDecay(curr_ros_value)

(* self.ros_values / self.intervals seen through an instance: no method   *)
(* assigns the attribute, so the lookup falls through to the class list   *)
ros_values(inst) == SpikeSinkSmoothing_ros_values
intervals(inst) == SpikeSourcePoisson_intervals

(* SpikeSourcePoisson.on_update: the value returned; draw stands for      *)
(* int(random.expovariate(1.0 / lambd)).                                  *)
(* ..._nonnegative: the early return taken for ros_value < 0 only.        *)
SpikeSourcePoisson_on_update_nonnegative(ros_value, neuron, n_neurons, draw) ==
    IF ros_value = None \/ Val(ros_value) < 0 THEN None ELSE Some(draw)
SpikeSourcePoisson_on_update(ros_value, neuron, n_neurons, draw) ==
    IF ros_value = None \/ Val(ros_value) <= 0 THEN None ELSE Some(draw)

(* ------------------------ SpikeSinkConvolution ------------------------ *)
ConvInstances == {1, 2}      \* two SpikeSinkConvolution instances

(* spike_response = [i * np.exp(2 - i) for i in np.arange(0, 6, 0.1)]:    *)
(* the 60 kernel entries, each rounded to the nearest integer             *)
SpikeSinkConvolution_spike_response ==
    <<0, 1, 1, 2, 2, 2, 2, 3, 3, 3, 3, 3, 3, 3, 3, 2, 2, 2, 2, 2,
      2, 2, 2, 2, 2, 2, 1, 1, 1, 1, 1, 1, 1, 1, 1, 1, 1, 1, 1, 1,
      1, 1, 0, 0, 0, 0, 0, 0, 0, 0, 0, 0, 0, 0, 0, 0, 0, 0, 0, 0>>

(* output = [1 for i in range(len(spike_response))] *)
SpikeSinkConvolution_output ==
    [k \in 1..Len(SpikeSinkConvolution_spike_response) |-> 1]

RECURSIVE SumSeq(_)
SumSeq(s) == IF s = <<>> THEN 0 ELSE Head(s) + SumSeq(Tail(s))

(* entry n (from 0) of the full discrete convolution of a and v *)
ConvolveAt(a, v, n) ==
    SumSeq([m \in 1..Len(a) |->
               IF n - (m - 1) \in 0..(Len(v) - 1)
               THEN a[m] * v[n - (m - 1) + 1]
               ELSE 0])

(* np.convolve(a, v, "same") for Len(a) >= Len(v): the Len(a) entries in  *)
(* the centre of the full convolution.                                    *)
(* np_convolve_full: mode "full", all Len(a) + Len(v) - 1 entries.        *)
np_convolve_full(a, v) ==
    [k \in 1..(Len(a) + Len(v) - 1) |-> ConvolveAt(a, v, k - 1)]
np_convolve_same(a, v) ==
    [k \in 1..Len(a) |-> ConvolveAt(a, v, k - 1 + (Len(v) - 1) \div 2)]

(* SpikeSinkConvolution.on_spike: self.output after the call, and the     *)
(* value returned (the method has no return statement)                    *)
SpikeSinkConvolution_on_spike_output(output) ==
    np_convolve_same(output, SpikeSinkConvolution_spike_response)
SpikeSinkConvolution_on_spike(spike_time, neuron_id, curr_ros_value) == None

(* SpikeSinkConvolution.on_update: self.output after the call            *)
(* (np.append(self.output[1:], 1)) and the value returned                 *)
(* (self.output[0]).                                                      *)
(* ..._keep_head: np.append(self.output, 1), the head not dropped.        *)
SpikeSinkConvolution_on_update_output_keep_head(output) ==
    Append(output, 1)
SpikeSinkConvolution_on_update_output(output) ==
    [k \in 1..Len(output) |-> IF k < Len(output) THEN output[k + 1] ELSE 1]
SpikeSinkConvolution_on_update(output, neurons, sim_time, curr_ros_value) ==
    Some(output[1])

(* ---------------------- SpikeSinkSpikesPerWindow ---------------------- *)
time_window == 100           \* ms
TimeStamps == {10, 50, 150, 205}     \* spike times delivered to the sink
SimTimes == {150, 200}               \* sim_time of a tick

(* sim_time - time_window < spike_time, for one recorded spike.           *)
(* InWindow_inclusive: the comparison written with <=.                    *)
InWindow_inclusive(sim_time, spike_time) ==
    sim_time - time_window <= spike_time
InWindow(sim_time, spike_time) ==
    sim_time - time_window < spike_time

(* SpikeSinkSpikesPerWindow.on_spike: pass, nothing is returned *)
SpikeSinkSpikesPerWindow_on_spike(spike_time, neuron_id, curr_ros_value) ==
    None

(* SpikeSinkSpikesPerWindow.on_update: the loop over the neurons, each    *)
(* adding sum(... for spike_time in neuron.spike_times)                   *)
SpikeSinkSpikesPerWindow_on_update(neurons, sim_time, curr_ros_value) ==
    SumSeq([n \in 1..Len(neurons) |->
               SumSeq([j \in 1..Len(neurons[n].spike_times) |->
                          IF InWindow(sim_time, neurons[n].spike_times[j])
                          THEN 1 ELSE 0])])

(* ------------- SpikeSourceConstantRate, SpikeSourceNumNeurons --------- *)
(* A ROS value is an integer or a float: the rational num / den, den > 0. *)
Rat(n, d) == [num |-> n, den |-> d]
RatLess(a, b) == a.num * b.den < b.num * a.den
RatLeq(a, b) == a.num * b.den <= b.num * a.den
SourceValues ==
    {None} \cup {Some(Rat(n, 1)) : n \in {-1, 0, 1, 2}} \cup {Some(Rat(3, 2))}

(* SpikeSourceConstantRate.on_update: the value returned.                *)
(* ..._nonnegative: the early return taken for ros_value < 0 only.        *)
SpikeSourceConstantRate_on_update_nonnegative(ros_value, neuron, n_neurons) ==
    IF ros_value = None \/ RatLess(Val(ros_value), Rat(0, 1))
    THEN None
    ELSE ros_value
SpikeSourceConstantRate_on_update(ros_value, neuron, n_neurons) ==
    IF ros_value = None \/ RatLeq(Val(ros_value), Rat(0, 1))
    THEN None
    ELSE ros_value

(* the fixed rate of SpikeSourceNumNeurons *)
NumNeuronsRate == 1000

(* SpikeSourceNumNeurons.on_update: the value returned.                  *)
(* ..._from_one: the test written on neuron instead of neuron + 1.        *)
SpikeSourceNumNeurons_on_update_from_one(ros_value, neuron, n_neurons) ==
    LET number_neurons == IF ros_value # None THEN Val(ros_value) ELSE Rat(0, 1)
        rate == IF ros_value # None THEN Some(NumNeuronsRate) ELSE None
    IN  IF /\ RatLess(Rat(0, 1), Rat(neuron, 1))
           /\ RatLeq(Rat(neuron, 1), number_neurons)
        THEN rate
        ELSE None
SpikeSourceNumNeurons_on_update(ros_value, neuron, n_neurons) ==
    LET number_neurons == IF ros_value # None THEN Val(ros_value) ELSE Rat(0, 1)
        rate == IF ros_value # None THEN Some(NumNeuronsRate) ELSE None
    IN  IF /\ RatLess(Rat(0, 1), Rat(neuron + 1, 1))
           /\ RatLeq(Rat(neuron + 1, 1), number_neurons)
        THEN rate
        ELSE None

(* ------------------------ SpikeSinkSmoothingMulti --------------------- *)
(* The current output is a Python list: heap holds the list objects in    *)
(* the order they were created, and a reference is a position in heap.    *)
(* Each operator gives the heap after the call and the reference          *)
(* returned.                                                              *)

(* SpikeSinkSmoothingMulti.on_spike: curr_ros_value.copy(), entry         *)
(* neuron_id of the copy set to curr_ros_value[neuron_id] + 1.            *)
(* ..._in_place: the entry assigned on curr_ros_value itself, no copy.    *)
SpikeSinkSmoothingMulti_on_spike_in_place(heap, spike_time, neuron_id, curr_ros_value) ==
    [heap |-> [heap EXCEPT ![curr_ros_value][neuron_id + 1] =
                               Plus(@, SpikeIncrement)],
     ret |-> curr_ros_value]
SpikeSinkSmoothingMulti_on_spike(heap, spike_time, neuron_id, curr_ros_value) ==
    LET new_ros_value ==
            [heap[curr_ros_value] EXCEPT
                ![neuron_id + 1] =
                    Plus(heap[curr_ros_value][neuron_id + 1], SpikeIncrement)]
    IN  [heap |-> Append(heap, new_ros_value), ret |-> Len(heap) + 1]

(* SpikeSinkSmoothingMulti.on_update: [val * 0.95 for val in curr_ros_value] *)
SpikeSinkSmoothingMulti_on_update(heap, neurons, sim_time, curr_ros_value) ==
    LET new_ros_value ==
            [k \in 1..Len(heap[curr_ros_value]) |->
                TimesDecay(heap[curr_ros_value][k])]
    IN  [heap |-> Append(heap, new_ros_value), ret |-> Len(heap) + 1]

(* ------------- the neurons argument of the sinks' on_update ----------- *)
SinkPolicies ==
    {"SpikeSinkSpikesPerWindow", "SpikeSinkSmoothing",
     "SpikeSinkSmoothingMulti", "SpikeSinkConvolution",
     "SpikeSinkConvolutionMultipleChannels"}

(* The neurons are passed by reference: each operator gives the neurons   *)
(* as the call leaves them.                                               *)

(* SpikeSinkSpikesPerWindow.on_update iterates over neuron.spike_times    *)
(* and assigns nothing.                                                   *)
(* ..._pruning: the time stamps that left the window removed.             *)
SpikeSinkSpikesPerWindow_on_update_neurons_pruning(neurons, sim_time) ==
    [k \in 1..Len(neurons) |->
        [neurons[k] EXCEPT
            !.spike_times =
                SelectSeq(@, LAMBDA t : InWindow(sim_time, t))]]
SpikeSinkSpikesPerWindow_on_update_neurons(neurons, sim_time) == neurons

(* SpikeSinkSmoothing.on_update and SpikeSinkSmoothingMulti.on_update do  *)
(* not use neurons                                                        *)
SpikeSinkSmoothing_on_update_neurons(neurons, sim_time) == neurons
SpikeSinkSmoothingMulti_on_update_neurons(neurons, sim_time) == neurons

(* SpikeSinkConvolution.on_update does not use neurons *)
SpikeSinkConvolution_on_update_neurons(neurons, sim_time) == neurons

(* SpikeSinkConvolutionMultipleChannels.on_update reads neuron.key to     *)
(* index self.output and assigns nothing on the neuron                    *)
SpikeSinkConvolutionMultipleChannels_on_update_neurons(neurons, sim_time) ==
    neurons

on_update_neurons(policy, neurons, sim_time) ==
    CASE policy = "SpikeSinkSpikesPerWindow" ->
             SpikeSinkSpikesPerWindow_on_update_neurons(neurons, sim_time)
      [] policy = "SpikeSinkSmoothing" ->
             SpikeSinkSmoothing_on_update_neurons(neurons, sim_time)
      [] policy = "SpikeSinkSmoothingMulti" ->
             SpikeSinkSmoothingMulti_on_update_neurons(neurons, sim_time)
      [] policy = "SpikeSinkConvolution" ->
             SpikeSinkConvolution_on_update_neurons(neurons, sim_time)
      [] policy = "SpikeSinkConvolutionMultipleChannels" ->
             SpikeSinkConvolutionMultipleChannels_on_update_neurons(neurons,
                                                                    sim_time)

(* inputs consumed so far: constructor calls, notifications, messages *)
Inputs == instance_counter + Len(workers) + received

(* the outcomes of random.expovariate: none is drawn on the early return *)
Draws(ros_value) ==
    IF ros_value = None \/ Val(ros_value) <= 0 THEN {0} ELSE 0..MaxInterval

InitInterface ==
    /\ instance_counter = 0
    /\ interfaces = <<>>
    /\ workers = <<>>
    /\ sim = "idle"
    /\ conn_ok = TRUE
    /\ proc_alive = TRUE
    /\ received = 0

NewSink(v0) ==
    [ros_value |-> Num(v0), initial |-> Num(v0), lock |-> "free",
     spike_pc |-> "idle", tick_pc |-> "idle",
     n_spikes |-> 0, n_ticks |-> 0, overlapped |-> FALSE]

InitPolicy(outputs) ==
    /\ sinks \in [SinkInstances -> {NewSink(v0) : v0 \in outputs}]
    /\ SpikeSinkSmoothing_ros_values = <<>>
    /\ SpikeSourcePoisson_intervals = <<>>
    /\ source_out = [s \in SourceInstances |-> None]
    /\ requests = 0

(* a convolution sink: the instance sees the class attribute output    *)
(* until its first call rebinds self.output                               *)
NewConvolutionSink(v0) ==
    [output |-> SpikeSinkConvolution_output, ros_value |-> Some(v0),
     n_spikes |-> 0, n_ticks |-> 0]

InitConvolution(outputs) ==
    /\ conv \in [ConvInstances -> {NewConvolutionSink(v0) : v0 \in outputs}]
    /\ SpikeSinkConvolution_ros_values = <<>>

(* a window sink over n neurons, none of which has spiked yet *)
NewWindowSink(n, v0) ==
    [neurons |-> [k \in 1..n |-> [spike_times |-> <<>>]],
     ros_value |-> Some(v0)]

InitWindow(sizes, outputs) ==
    win \in {NewWindowSink(n, v0) : n \in sizes, v0 \in outputs}

InitSource == answers = <<>>

(* a sink population of n neurons, none of which has spiked, and the      *)
(* policy of its sink                                                     *)
InitHistory(policies, sizes) ==
    hist \in {[policy |-> p,
               neurons |-> [k \in 1..n |->
                               [key |-> k - 1, spike_times |-> <<>>]],
               sim_time |-> None] : p \in policies, n \in sizes}

(* a per-neuron sink whose current output is a list of n entries *)
InitMulti(sizes, outputs) ==
    multi \in {[heap |-> <<[k \in 1..n |-> Num(v0)]>>, ros_value |-> 1,
                n_ops |-> 0] : n \in sizes, v0 \in outputs}

Init ==
    /\ InitInterface
    /\ InitPolicy({0})
    /\ InitConvolution({0})
    /\ InitWindow({DefaultNeurons}, {0})
    /\ InitSource
    /\ InitMulti({DefaultNeurons}, {0})
    /\ InitHistory({"SpikeSinkSpikesPerWindow"}, {DefaultNeurons})

(* _ROS_Spinnaker_Poisson_Rate_Interface.__init__ *)
Construct(n_arg, pop) ==
    /\ proc_alive
    /\ Inputs < MaxInputs
    /\ instance_counter' = AdvanceCounter(instance_counter)
    /\ IF pop = None
       THEN \* self._poisson_population.label raises AttributeError
            UNCHANGED <<interfaces, workers>>
       ELSE /\ interfaces' = Append(interfaces,
                  [n_neurons |-> NNeurons(n_arg),
                   interface_id |-> instance_counter,
                   poisson_rate_control_port |-> ControlPort(instance_counter),
                   queue |-> <<>>,
                   rates_sent |-> <<>>,
                   notified |-> 0])
            /\ workers' = WorkersAfterInit(workers, Len(interfaces) + 1)
    /\ UNCHANGED polvars
    /\ UNCHANGED extvars
    /\ UNCHANGED <<sim, conn_ok, proc_alive, received>>

(* _poisson_rate_control_callback, invoked by the substrate on start/resume *)
StartResumeCallback(i) ==
    /\ proc_alive
    /\ Inputs < MaxInputs
    /\ workers' = Append(workers, [iface |-> i, pc |-> "start",
                                   is_shutdown |-> FALSE, ros_msg |-> None,
                                   exc |-> "none"])
    /\ interfaces' = [interfaces EXCEPT ![i].notified = @ + 1]
    /\ sim' = "running"
    /\ UNCHANGED polvars
    /\ UNCHANGED extvars
    /\ UNCHANGED <<instance_counter, conn_ok, proc_alive, received>>

(* _run_ros_node up to the loop: init_node, Subscriber, Rate *)
WorkerStart(w) ==
    /\ workers[w].pc = "start"
    /\ workers' = [workers EXCEPT ![w].pc = "loop"]
    /\ UNCHANGED polvars
    /\ UNCHANGED extvars
    /\ UNCHANGED <<instance_counter, interfaces, sim, conn_ok, proc_alive,
                   received>>

(* _incoming_ros_poisson_rate_callback, run by worker w's subscriber *)
IncomingCallback(w, msg) ==
    /\ workers[w].pc = "loop"
    /\ Inputs < MaxInputs
    /\ received' = received + 1
    /\ interfaces' = [interfaces EXCEPT
                        ![workers[w].iface].queue = Append(@, msg)]
    /\ UNCHANGED polvars
    /\ UNCHANGED extvars
    /\ UNCHANGED <<instance_counter, workers, sim, conn_ok, proc_alive>>

(* one iteration of the while loop of _run_ros_node.                     *)
(* Tick_latest: the channel read as a latest-value slot, the newest       *)
(* pending message taken and the older ones dropped.                      *)
Tick_latest(w) ==
    LET i == workers[w].iface
        q == interfaces[i].queue
        n == interfaces[i].n_neurons
    IN
    /\ workers[w].pc = "loop"
    /\ IF workers[w].is_shutdown
       THEN /\ workers' = [workers EXCEPT ![w].pc = "exit"]
            /\ UNCHANGED interfaces
       ELSE IF q = <<>>
       THEN UNCHANGED <<workers, interfaces>>
       ELSE IF n > Len(q[Len(q)])
       THEN \* ros_msg[i] raises IndexError
            /\ workers' = [workers EXCEPT ![w].ros_msg = Some(q[Len(q)]),
                                          ![w].pc = "raised",
                                          ![w].exc = "IndexError"]
            /\ interfaces' = [interfaces EXCEPT ![i].queue = <<>>]
       ELSE IF ~conn_ok
       THEN \* connection.set_rates raises
            /\ workers' = [workers EXCEPT ![w].ros_msg = Some(q[Len(q)]),
                                          ![w].pc = "raised",
                                          ![w].exc = "transport"]
            /\ interfaces' = [interfaces EXCEPT ![i].queue = <<>>]
       ELSE /\ workers' = [workers EXCEPT ![w].ros_msg = Some(q[Len(q)])]
            /\ interfaces' = [interfaces EXCEPT
                  ![i].queue = <<>>,
                  ![i].rates_sent = Append(@, RatePairs(q[Len(q)], n))]
    /\ UNCHANGED polvars
    /\ UNCHANGED extvars
    /\ UNCHANGED <<instance_counter, sim, conn_ok, proc_alive, received>>
Tick(w) ==
    LET i == workers[w].iface
        q == interfaces[i].queue
        n == interfaces[i].n_neurons
    IN
    /\ workers[w].pc = "loop"
    /\ IF workers[w].is_shutdown
       THEN /\ workers' = [workers EXCEPT ![w].pc = "exit"]
            /\ UNCHANGED interfaces
       ELSE IF q = <<>>
       THEN UNCHANGED <<workers, interfaces>>
       ELSE IF n > Len(Head(q))
       THEN \* ros_msg[i] raises IndexError
            /\ workers' = [workers EXCEPT ![w].ros_msg = Some(Head(q)),
                                          ![w].pc = "raised",
                                          ![w].exc = "IndexError"]
            /\ interfaces' = [interfaces EXCEPT ![i].queue = Tail(q)]
       ELSE IF ~conn_ok
       THEN \* connection.set_rates raises
            /\ workers' = [workers EXCEPT ![w].ros_msg = Some(Head(q)),
                                          ![w].pc = "raised",
                                          ![w].exc = "transport"]
            /\ interfaces' = [interfaces EXCEPT ![i].queue = Tail(q)]
       ELSE /\ workers' = [workers EXCEPT ![w].ros_msg = Some(Head(q))]
            /\ interfaces' = [interfaces EXCEPT
                  ![i].queue = Tail(q),
                  ![i].rates_sent = Append(@, RatePairs(Head(q), n))]
    /\ UNCHANGED polvars
    /\ UNCHANGED extvars
    /\ UNCHANGED <<instance_counter, sim, conn_ok, proc_alive, received>>

(* rospy.is_shutdown() turns true in worker w *)
RosShutdown(w) ==
    /\ workers[w].pc = "loop"
    /\ ~workers[w].is_shutdown
    /\ workers' = [workers EXCEPT ![w].is_shutdown = TRUE]
    /\ UNCHANGED polvars
    /\ UNCHANGED extvars
    /\ UNCHANGED <<instance_counter, interfaces, sim, conn_ok, proc_alive,
                   received>>

(* the control connection stops or resumes accepting set_rates *)
ConnectionChange ==
    /\ proc_alive
    /\ conn_ok' = ~conn_ok
    /\ UNCHANGED polvars
    /\ UNCHANGED extvars
    /\ UNCHANGED <<instance_counter, interfaces, workers, sim, proc_alive,
                   received>>

(* the substrate signals run end; the interface registered no handler *)
RunEnd ==
    /\ proc_alive
    /\ sim = "running"
    /\ sim' = "ended"
    /\ UNCHANGED polvars
    /\ UNCHANGED extvars
    /\ UNCHANGED <<instance_counter, interfaces, workers, conn_ok,
                   proc_alive, received>>

(* the owning process exits; pr.daemon = True terminates its workers *)
ProcessExit ==
    /\ proc_alive
    /\ proc_alive' = FALSE
    /\ workers' = [w \in 1..Len(workers) |->
                      IF workers[w].pc \in {"start", "loop"}
                      THEN [workers[w] EXCEPT !.pc = "terminated"]
                      ELSE workers[w]]
    /\ UNCHANGED polvars
    /\ UNCHANGED extvars
    /\ UNCHANGED <<instance_counter, interfaces, sim, conn_ok, received>>

Next ==
    \/ \E n_arg \in NeuronArgs, pop \in Populations : Construct(n_arg, pop)
    \/ \E i \in 1..Len(interfaces) : StartResumeCallback(i)
    \/ \E w \in 1..Len(workers) : WorkerStart(w)
    \/ \E w \in 1..Len(workers), msg \in Messages : IncomingCallback(w, msg)
    \/ \E w \in 1..Len(workers) : Tick(w)
    \/ \E w \in 1..Len(workers) : RosShutdown(w)
    \/ ConnectionChange
    \/ RunEnd
    \/ ProcessExit

Spec == Init /\ [][Next]_vars

(* ------------------- sink engine and policy operations ---------------- *)
(* The engine that calls on_spike / on_update (BasicSpikeSink, module     *)
(* population) is imported by transfer_functions.py but is not among the  *)
(* sources; its two paths and the lock on the current output value follow *)
(* the design document, sections 4.2 and 5.                               *)

PolicyInit ==
    /\ InitInterface
    /\ InitPolicy(0..MaxInitialOutput)
    /\ InitConvolution({0})
    /\ InitWindow({DefaultNeurons}, {0})
    /\ InitSource
    /\ InitMulti({DefaultNeurons}, {0})
    /\ InitHistory({"SpikeSinkSpikesPerWindow"}, {DefaultNeurons})

(* operations entered so far on sink a, and on all policy instances *)
SinkOps(a) ==
    sinks[a].n_spikes + sinks[a].n_ticks
        + (IF sinks[a].spike_pc # "idle" THEN 1 ELSE 0)
        + (IF sinks[a].tick_pc # "idle" THEN 1 ELSE 0)
PolicyOps == SinkOps(1) + SinkOps(2) + requests

(* the substrate delivers a spike event to sink a: on_spike_event entered *)
SpikeEvent(a) ==
    /\ sinks[a].spike_pc = "idle"
    /\ PolicyOps < MaxOps
    /\ sinks' = [sinks EXCEPT ![a].spike_pc = "waiting",
                              ![a].overlapped = @ \/ sinks[a].tick_pc # "idle"]
    /\ UNCHANGED <<SpikeSinkSmoothing_ros_values,
                   SpikeSourcePoisson_intervals, source_out, requests>>
    /\ UNCHANGED ifvars
    /\ UNCHANGED extvars

(* the engine's clock fires for sink a: on_tick entered *)
SinkTick(a) ==
    /\ sinks[a].tick_pc = "idle"
    /\ PolicyOps < MaxOps
    /\ sinks' = [sinks EXCEPT ![a].tick_pc = "waiting",
                              ![a].overlapped = @ \/ sinks[a].spike_pc # "idle"]
    /\ UNCHANGED <<SpikeSinkSmoothing_ros_values,
                   SpikeSourcePoisson_intervals, source_out, requests>>
    /\ UNCHANGED ifvars
    /\ UNCHANGED extvars

(* either path takes the lock on the current output value *)
Acquire(a, path) ==
    /\ sinks[a].lock = "free"
    /\ \/ /\ path = "spike"
          /\ sinks[a].spike_pc = "waiting"
          /\ sinks' = [sinks EXCEPT ![a].lock = "spike",
                                    ![a].spike_pc = "locked"]
       \/ /\ path = "tick"
          /\ sinks[a].tick_pc = "waiting"
          /\ sinks' = [sinks EXCEPT ![a].lock = "tick",
                                    ![a].tick_pc = "locked"]
    /\ UNCHANGED <<SpikeSinkSmoothing_ros_values,
                   SpikeSourcePoisson_intervals, source_out, requests>>
    /\ UNCHANGED ifvars
    /\ UNCHANGED extvars

(* spike path under the lock: on_spike(current output) becomes the output *)
ApplySpike(a, spike_time, neuron_id) ==
    LET new_ros_value ==
            SpikeSinkSmoothing_on_spike(spike_time, neuron_id,
                                        sinks[a].ros_value)
    IN
    /\ sinks[a].spike_pc = "locked"
    /\ SpikeSinkSmoothing_ros_values' =
           Append(SpikeSinkSmoothing_ros_values, new_ros_value)
    /\ sinks' = [sinks EXCEPT ![a].ros_value = new_ros_value,
                              ![a].lock = "free",
                              ![a].spike_pc = "idle",
                              ![a].n_spikes = @ + 1]
    /\ UNCHANGED <<SpikeSourcePoisson_intervals, source_out, requests>>
    /\ UNCHANGED ifvars
    /\ UNCHANGED extvars

(* tick path under the lock: on_update(current output) becomes the output *)
ApplyTick(a, sim_time) ==
    LET new_ros_value ==
            SpikeSinkSmoothing_on_update(<<>>, sim_time, sinks[a].ros_value)
    IN
    /\ sinks[a].tick_pc = "locked"
    /\ SpikeSinkSmoothing_ros_values' =
           Append(SpikeSinkSmoothing_ros_values, new_ros_value)
    /\ sinks' = [sinks EXCEPT ![a].ros_value = new_ros_value,
                              ![a].lock = "free",
                              ![a].tick_pc = "idle",
                              ![a].n_ticks = @ + 1]
    /\ UNCHANGED <<SpikeSourcePoisson_intervals, source_out, requests>>
    /\ UNCHANGED ifvars
    /\ UNCHANGED extvars

(* SpikeSourcePoisson.on_update on instance s *)
PoissonRequest(s, ros_value, neuron, draw) ==
    LET interval ==
            SpikeSourcePoisson_on_update(ros_value, neuron, MaxNeurons, draw)
    IN
    /\ PolicyOps < MaxOps
    /\ requests' = requests + 1
    /\ source_out' = [source_out EXCEPT ![s] = interval]
    /\ SpikeSourcePoisson_intervals' =
           IF interval = None
           THEN SpikeSourcePoisson_intervals
           ELSE Append(SpikeSourcePoisson_intervals, <<Val(interval), neuron>>)
    /\ UNCHANGED <<sinks, SpikeSinkSmoothing_ros_values>>
    /\ UNCHANGED ifvars
    /\ UNCHANGED extvars

PolicyNext ==
    \/ \E a \in SinkInstances : SpikeEvent(a)
    \/ \E a \in SinkInstances : SinkTick(a)
    \/ \E a \in SinkInstances, path \in {"spike", "tick"} : Acquire(a, path)
    \/ \E a \in SinkInstances, t \in SpikeTimes, k \in NeuronIds :
          ApplySpike(a, t, k)
    \/ \E a \in SinkInstances, t \in SpikeTimes : ApplyTick(a, t)
    \/ \E s \in SourceInstances, v \in RosValues, k \in NeuronIds :
          \E d \in Draws(v) : PoissonRequest(s, v, k, d)

PolicySpec == PolicyInit /\ [][PolicyNext]_vars

(* the Poisson sources alone, served request after request *)
PoissonNext ==
    \E s \in SourceInstances, v \in RosValues, k \in NeuronIds :
        \E d \in Draws(v) : PoissonRequest(s, v, k, d)

PoissonSpec == Init /\ [][PoissonNext]_vars

(* --------------------- convolution sink operations -------------------- *)
ConvInit ==
    /\ InitInterface
    /\ InitPolicy({0})
    /\ InitConvolution(0..MaxInitialOutput)
    /\ InitWindow({DefaultNeurons}, {0})
    /\ InitSource
    /\ InitMulti({DefaultNeurons}, {0})
    /\ InitHistory({"SpikeSinkSpikesPerWindow"}, {DefaultNeurons})

ConvOps == conv[1].n_spikes + conv[1].n_ticks
               + conv[2].n_spikes + conv[2].n_ticks

(* spike path of the engine on convolution sink c: on_spike runs and the  *)
(* value it returns becomes the current output                            *)
ConvSpike(c, spike_time, neuron_id) ==
    /\ ConvOps < MaxConvOps
    /\ conv' = [conv EXCEPT
                   ![c].output = SpikeSinkConvolution_on_spike_output(@),
                   ![c].ros_value =
                       SpikeSinkConvolution_on_spike(spike_time, neuron_id, @),
                   ![c].n_spikes = @ + 1]
    /\ UNCHANGED <<SpikeSinkConvolution_ros_values, win, answers, multi, hist>>
    /\ UNCHANGED ifvars
    /\ UNCHANGED polvars

(* tick path of the engine on convolution sink c: on_update runs and the  *)
(* value it returns becomes the current output                            *)
ConvTick(c, sim_time) ==
    LET new_ros_value ==
            SpikeSinkConvolution_on_update(conv[c].output, <<>>, sim_time,
                                           conv[c].ros_value)
    IN
    /\ ConvOps < MaxConvOps
    /\ conv' = [conv EXCEPT
                   ![c].output = SpikeSinkConvolution_on_update_output(@),
                   ![c].ros_value = new_ros_value,
                   ![c].n_ticks = @ + 1]
    /\ SpikeSinkConvolution_ros_values' =
           Append(SpikeSinkConvolution_ros_values, Val(new_ros_value))
    /\ UNCHANGED <<win, answers, multi, hist>>
    /\ UNCHANGED ifvars
    /\ UNCHANGED polvars

ConvNext ==
    \/ \E c \in ConvInstances, t \in SpikeTimes, k \in NeuronIds :
          ConvSpike(c, t, k)
    \/ \E c \in ConvInstances, t \in SpikeTimes : ConvTick(c, t)

ConvSpec == ConvInit /\ [][ConvNext]_vars

(* ----------------------- window sink operations ----------------------- *)
WindowInit ==
    /\ InitInterface
    /\ InitPolicy({0})
    /\ InitConvolution({0})
    /\ InitWindow(1..MaxNeurons, 0..MaxInitialOutput)
    /\ InitSource
    /\ InitMulti({DefaultNeurons}, {0})
    /\ InitHistory({"SpikeSinkSpikesPerWindow"}, {DefaultNeurons})

(* spike path of the engine: the time stamp is appended to the neuron's   *)
(* history, on_spike runs and the value it returns becomes the current    *)
(* output; time stamps arrive in increasing order                         *)
WindowSpike(spike_time, neuron_id) ==
    /\ neuron_id + 1 \in 1..Len(win.neurons)
    /\ LET history == win.neurons[neuron_id + 1].spike_times IN
           IF history = <<>> THEN TRUE
           ELSE history[Len(history)] < spike_time
    /\ win' = [win EXCEPT
                  !.neurons[neuron_id + 1].spike_times = Append(@, spike_time),
                  !.ros_value =
                      SpikeSinkSpikesPerWindow_on_spike(spike_time, neuron_id, @)]
    /\ UNCHANGED <<conv, SpikeSinkConvolution_ros_values, answers, multi, hist>>
    /\ UNCHANGED ifvars
    /\ UNCHANGED polvars

(* tick path of the engine: on_update runs on the neurons' histories and  *)
(* the value it returns becomes the current output                        *)
WindowTick(sim_time) ==
    /\ win' = [win EXCEPT
                  !.ros_value =
                      Some(SpikeSinkSpikesPerWindow_on_update(win.neurons,
                                                              sim_time, @))]
    /\ UNCHANGED <<conv, SpikeSinkConvolution_ros_values, answers, multi, hist>>
    /\ UNCHANGED ifvars
    /\ UNCHANGED polvars

WindowNext ==
    \/ \E t \in TimeStamps, k \in NeuronIds : WindowSpike(t, k)
    \/ \E t \in SimTimes : WindowTick(t)

WindowSpec == WindowInit /\ [][WindowNext]_vars

(* -------------------- stateless source operations --------------------- *)
SourceInit ==
    /\ InitInterface
    /\ InitPolicy({0})
    /\ InitConvolution({0})
    /\ InitWindow({DefaultNeurons}, {0})
    /\ InitSource
    /\ InitMulti({DefaultNeurons}, {0})
    /\ InitHistory({"SpikeSinkSpikesPerWindow"}, {DefaultNeurons})

(* the record of one served request *)
Answer(policy, ros_value, neuron, n_neurons, interval) ==
    [policy |-> policy, ros_value |-> ros_value, neuron |-> neuron,
     n_neurons |-> n_neurons, interval |-> interval]

(* SpikeSourceConstantRate.on_update is asked for neuron's next interval. *)
(* ..._remembering: an absent input answered with the interval returned   *)
(* to the previous request.                                               *)
RequestConstantRate_remembering(ros_value, neuron, n_neurons) ==
    /\ Len(answers) < MaxRequests
    /\ answers' = Append(answers,
          Answer("SpikeSourceConstantRate", ros_value, neuron, n_neurons,
                 IF ros_value = None /\ answers # <<>>
                 THEN answers[Len(answers)].interval
                 ELSE SpikeSourceConstantRate_on_update(ros_value, neuron,
                                                        n_neurons)))
    /\ UNCHANGED <<conv, SpikeSinkConvolution_ros_values, win, multi, hist>>
    /\ UNCHANGED ifvars
    /\ UNCHANGED polvars
RequestConstantRate(ros_value, neuron, n_neurons) ==
    /\ Len(answers) < MaxRequests
    /\ answers' = Append(answers,
          Answer("SpikeSourceConstantRate", ros_value, neuron, n_neurons,
                 SpikeSourceConstantRate_on_update(ros_value, neuron,
                                                   n_neurons)))
    /\ UNCHANGED <<conv, SpikeSinkConvolution_ros_values, win, multi, hist>>
    /\ UNCHANGED ifvars
    /\ UNCHANGED polvars

(* SpikeSourceNumNeurons.on_update is asked for neuron's next interval *)
RequestNumNeurons(ros_value, neuron, n_neurons) ==
    /\ Len(answers) < MaxRequests
    /\ answers' = Append(answers,
          Answer("SpikeSourceNumNeurons", ros_value, neuron, n_neurons,
                 SpikeSourceNumNeurons_on_update(ros_value, neuron,
                                                 n_neurons)))
    /\ UNCHANGED <<conv, SpikeSinkConvolution_ros_values, win, multi, hist>>
    /\ UNCHANGED ifvars
    /\ UNCHANGED polvars

SourceNext ==
    \/ \E v \in SourceValues, k \in NeuronIds :
          RequestConstantRate(v, k, MaxNeurons)
    \/ \E v \in SourceValues, k \in NeuronIds :
          RequestNumNeurons(v, k, MaxNeurons)

SourceSpec == SourceInit /\ [][SourceNext]_vars

(* --------------------- per-neuron sink operations --------------------- *)
MultiInit ==
    /\ InitInterface
    /\ InitPolicy({0})
    /\ InitConvolution({0})
    /\ InitWindow({DefaultNeurons}, {0})
    /\ InitSource
    /\ InitMulti(1..MaxNeurons, 0..MaxInitialOutput)
    /\ InitHistory({"SpikeSinkSpikesPerWindow"}, {DefaultNeurons})

(* spike path of the engine: on_spike runs on the current output and the  *)
(* list it returns becomes the current output                             *)
MultiSpike(spike_time, neuron_id) ==
    LET r == SpikeSinkSmoothingMulti_on_spike(multi.heap, spike_time,
                                              neuron_id, multi.ros_value)
    IN
    /\ multi.n_ops < MaxMultiOps
    /\ neuron_id + 1 \in 1..Len(multi.heap[multi.ros_value])
    /\ multi' = [heap |-> r.heap, ros_value |-> r.ret,
                 n_ops |-> multi.n_ops + 1]
    /\ UNCHANGED <<conv, SpikeSinkConvolution_ros_values, win, answers, hist>>
    /\ UNCHANGED ifvars
    /\ UNCHANGED polvars

(* tick path of the engine: on_update runs on the current output and the  *)
(* list it returns becomes the current output                             *)
MultiTick(sim_time) ==
    LET r == SpikeSinkSmoothingMulti_on_update(multi.heap, <<>>, sim_time,
                                               multi.ros_value)
    IN
    /\ multi.n_ops < MaxMultiOps
    /\ multi' = [heap |-> r.heap, ros_value |-> r.ret,
                 n_ops |-> multi.n_ops + 1]
    /\ UNCHANGED <<conv, SpikeSinkConvolution_ros_values, win, answers, hist>>
    /\ UNCHANGED ifvars
    /\ UNCHANGED polvars

MultiNext ==
    \/ \E t \in SpikeTimes, k \in NeuronIds : MultiSpike(t, k)
    \/ \E t \in SpikeTimes : MultiTick(t)

MultiSpec == MultiInit /\ [][MultiNext]_vars

(* -------------------- spike histories under ticks --------------------- *)
HistoryInit ==
    /\ InitInterface
    /\ InitPolicy({0})
    /\ InitConvolution({0})
    /\ InitWindow({DefaultNeurons}, {0})
    /\ InitSource
    /\ InitMulti({DefaultNeurons}, {0})
    /\ InitHistory(SinkPolicies, 1..MaxNeurons)

(* spike path of the engine: the time stamp is appended to the history of *)
(* the neuron that spiked; time stamps arrive in increasing order         *)
HistorySpike(spike_time, neuron_id) ==
    /\ neuron_id + 1 \in 1..Len(hist.neurons)
    /\ LET history == hist.neurons[neuron_id + 1].spike_times IN
           IF history = <<>> THEN TRUE
           ELSE history[Len(history)] < spike_time
    /\ hist' = [hist EXCEPT
                   !.neurons[neuron_id + 1].spike_times = Append(@, spike_time)]
    /\ UNCHANGED <<conv, SpikeSinkConvolution_ros_values, win, answers,
                   multi>>
    /\ UNCHANGED ifvars
    /\ UNCHANGED polvars

(* tick path of the engine: on_update of the sink's policy is given the   *)
(* neurons at sim_time                                                    *)
HistoryTick(sim_time) ==
    /\ hist' = [hist EXCEPT
                   !.neurons = on_update_neurons(hist.policy, @, sim_time),
                   !.sim_time = Some(sim_time)]
    /\ UNCHANGED <<conv, SpikeSinkConvolution_ros_values, win, answers,
                   multi>>
    /\ UNCHANGED ifvars
    /\ UNCHANGED polvars

HistoryNext ==
    \/ \E t \in TimeStamps, k \in NeuronIds : HistorySpike(t, k)
    \/ \E t \in SimTimes : HistoryTick(t)

HistorySpec == HistoryInit /\ [][HistoryNext]_vars

(* ------------------ one interface with a single worker ---------------- *)
(* The state after one construction and one start/resume notification:    *)
(* one interface and its only worker, about to enter _run_ros_node.       *)
WorkerInit ==
    /\ instance_counter = 1
    /\ \E n_arg \in NeuronArgs :
          interfaces = <<[n_neurons |-> NNeurons(n_arg),
                          interface_id |-> 0,
                          poisson_rate_control_port |-> ControlPort(0),
                          queue |-> <<>>,
                          rates_sent |-> <<>>,
                          notified |-> 1]>>
    /\ workers = <<[iface |-> 1, pc |-> "start", is_shutdown |-> FALSE,
                    ros_msg |-> None, exc |-> "none"]>>
    /\ sim = "running"
    /\ conn_ok = TRUE
    /\ proc_alive = TRUE
    /\ received = 0
    /\ InitPolicy({0})
    /\ InitConvolution({0})
    /\ InitWindow({DefaultNeurons}, {0})
    /\ InitSource
    /\ InitMulti({DefaultNeurons}, {0})
    /\ InitHistory({"SpikeSinkSpikesPerWindow"}, {DefaultNeurons})

WorkerNext ==
    \/ WorkerStart(1)
    \/ \E msg \in Messages : IncomingCallback(1, msg)
    \/ Tick(1)
    \/ RosShutdown(1)
    \/ ConnectionChange
    \/ ProcessExit

(* the loop of _run_ros_node runs again after every ros_timer.sleep() *)
WorkerSpec ==
    /\ WorkerInit
    /\ [][WorkerNext]_vars
    /\ WF_vars(WorkerStart(1))
    /\ WF_vars(Tick(1))

(* ------------------------- derived state ------------------------------ *)
Ifaces == 1..Len(interfaces)
WorkersOf(i) == {w \in 1..Len(workers) : workers[w].iface = i}
Last(s) == s[Len(s)]

(* a step in which set_rates is called on interface i *)
SetRatesStep(i) ==
    Len(interfaces'[i].rates_sent) > Len(interfaces[i].rates_sent)

(* a step in which worker w takes a value from the rate channel *)
ReadStep(w) ==
    /\ Tick(w)
    /\ ~workers[w].is_shutdown
    /\ interfaces[workers[w].iface].queue # <<>>

(* ------------------------------ claims -------------------------------- *)

(* C1: whenever a tick forwards a rate vector with set_rates, the vector  *)
(* is built from the most recently received message: with m1..mk pending  *)
(* in the channel, the tick forwards mk.                                  *)
C1_ForwardsLatest ==
    [][\A i \in Ifaces :
          SetRatesStep(i) =>
              /\ interfaces[i].n_neurons <= Len(Last(interfaces[i].queue))
              /\ Last(interfaces'[i].rates_sent) =
                    RatePairs(Last(interfaces[i].queue),
                              interfaces[i].n_neurons)]_vars

(* C2: a read of the rate channel returns the value written last (write   *)
(* then read gives back the written value), and while nothing has been    *)
(* written no worker has taken a value and no set_rates call was made.    *)
C2_ChannelRoundTrip ==
    /\ [](received = 0 =>
             /\ \A i \in Ifaces : interfaces[i].rates_sent = <<>>
             /\ \A w \in 1..Len(workers) : workers[w].ros_msg = None)
    /\ [][\A w \in 1..Len(workers) :
             ReadStep(w) =>
                 workers'[w].ros_msg =
                     Some(Last(interfaces[workers[w].iface].queue))]_vars

(* C3: at most one worker process is ever created for one interface,      *)
(* however many start/resume notifications are delivered.                 *)
C3_SingleWorker ==
    \A i \in Ifaces : Cardinality(WorkersOf(i)) <= 1

(* C4: construction only arms an interface: the workers of an interface   *)
(* are exactly those created by its start/resume callback, and before the *)
(* first callback it has no worker, no message written to its channel and *)
(* no set_rates call.                                                     *)
C4_ArmedUntilStartCallback ==
    \A i \in Ifaces :
        /\ Cardinality(WorkersOf(i)) = interfaces[i].notified
        /\ interfaces[i].notified = 0 =>
              /\ WorkersOf(i) = {}
              /\ interfaces[i].queue = <<>>
              /\ interfaces[i].rates_sent = <<>>

(* an interface is still armed while another one runs and forwards rates *)
C4_Witness ==
    \E i, j \in Ifaces :
        /\ interfaces[i].notified = 0
        /\ interfaces[j].notified > 0
        /\ interfaces[j].rates_sent # <<>>

(* C5: once the substrate has signalled run end, the worker makes no      *)
(* further set_rates call.                                                *)
C5_NoSetRatesAfterRunEnd ==
    [][sim = "ended" => \A i \in Ifaces : ~SetRatesStep(i)]_vars

(* C6: interface ids are strictly increasing in construction order,       *)
(* pairwise distinct and never handed out again; the control ports        *)
(* 30000 + interface_id are pairwise distinct.                            *)
C6_IdentityIncreasing ==
    /\ \A i \in Ifaces :
          /\ interfaces[i].interface_id < instance_counter
          /\ interfaces[i].poisson_rate_control_port =
                BasePort + interfaces[i].interface_id
    /\ \A i, j \in Ifaces :
          i < j =>
              /\ interfaces[i].interface_id < interfaces[j].interface_id
              /\ interfaces[i].poisson_rate_control_port #
                    interfaces[j].poisson_rate_control_port

(* two interfaces have been constructed in this process *)
C6_Witness ==
    /\ Len(interfaces) = 2
    /\ interfaces[2].interface_id > interfaces[1].interface_id

(* C7: a construction with an invalid neuron count or a missing           *)
(* population fails and leaves nothing behind: every constructed          *)
(* interface has n_neurons >= 1 and every id taken from the counter       *)
(* belongs to a constructed interface.                                    *)
C7_ConfigErrorsAtomic ==
    /\ instance_counter = Len(interfaces)
    /\ \A i \in Ifaces : interfaces[i].n_neurons >= 1

(* what can be observed through sink instance b / source instance s *)
SinkState(b) == <<sinks[b].ros_value, ros_values(b)>>
SourceState(s) == <<source_out[s], intervals(s)>>

(* a policy operation (on_spike or on_update) runs on sink instance a *)
SinkOperation(a) ==
    \/ \E t \in SpikeTimes, k \in NeuronIds : ApplySpike(a, t, k)
    \/ \E t \in SpikeTimes : ApplyTick(a, t)

(* on_update runs on Poisson source instance s *)
SourceOperation(s) ==
    \E v \in RosValues, k \in NeuronIds :
        \E d \in Draws(v) : PoissonRequest(s, v, k, d)

C9_InstanceIsolation ==
    [][/\ \A a, b \in SinkInstances :
             (a # b /\ SinkOperation(a)) => SinkState(b)' = SinkState(b)
       /\ \A s, t \in SourceInstances :
             (s # t /\ SourceOperation(s)) => SourceState(t)' = SourceState(t)
      ]_vars

(* C10: a set_rates call that fails does not kill the worker.             *)
C10_WorkerSurvivesTransportError ==
    \A w \in 1..Len(workers) :
        ~(workers[w].pc = "raised" /\ workers[w].exc = "transport")

(* C11: the number of values pending in an interface's rate channel       *)
(* (_queue_ros_poisson_rate) never exceeds the channel's fixed capacity,  *)
(* one slot, however the arrivals and the worker's ticks interleave.      *)
C11_ChannelBounded ==
    \A i \in Ifaces : Len(interfaces[i].queue) <= 1

(* v0 * 0.95^k, written in closed form *)
Decayed(v0, k) ==
    [num |-> v0.num * Pow(DecayNum, k), exp |-> v0.exp + k]

(* C12: on a SpikeSinkSmoothing sink that starts from v0, k on_update     *)
(* calls with no on_spike between them leave v0 * 0.95^k; every on_spike  *)
(* returns exactly curr + 1 and every on_update exactly curr * 0.95, so a *)
(* spike followed by a tick gives (curr + 1) * 0.95; this holds for every *)
(* v0, k, spike_time and neuron_id.                                       *)
C12_SmoothingArithmetic ==
    /\ [](\A a \in SinkInstances :
             sinks[a].n_spikes = 0 =>
                 sinks[a].ros_value =
                     Decayed(sinks[a].initial, sinks[a].n_ticks))
    /\ [][\A a \in SinkInstances :
             sinks'[a] # sinks[a] =>
             /\ (\E t \in SpikeTimes, k \in NeuronIds : ApplySpike(a, t, k))
                => /\ sinks'[a].ros_value.exp = sinks[a].ros_value.exp
                   /\ sinks'[a].ros_value.num =
                         sinks[a].ros_value.num
                             + Pow(DecayDen, sinks[a].ros_value.exp)
                   /\ Last(SpikeSinkSmoothing_ros_values') =
                         sinks'[a].ros_value
             /\ (\E t \in SpikeTimes : ApplyTick(a, t))
                => /\ sinks'[a].ros_value.exp = sinks[a].ros_value.exp + 1
                   /\ sinks'[a].ros_value.num =
                         DecayNum * sinks[a].ros_value.num
                   /\ Last(SpikeSinkSmoothing_ros_values') =
                         sinks'[a].ros_value]_vars

(* a sink that started from 1 has decayed twice with no spike in between: *)
(* its output is 361/400 = 0.9025                                         *)
C12_Witness ==
    \E a \in SinkInstances :
        /\ sinks[a].initial = Num(1)
        /\ sinks[a].n_spikes = 0
        /\ sinks[a].n_ticks = 2
        /\ sinks[a].ros_value = [num |-> 361, exp |-> 2]

(* C13: the output buffer of a SpikeSinkConvolution sink always has the   *)
(* length of the kernel, 60, after any sequence of on_update and on_spike *)
(* calls: a tick removes one element and adds one, a spike keeps the      *)
(* length.                                                                *)
C13_BufferLength ==
    /\ Len(SpikeSinkConvolution_spike_response) = 60
    /\ \A c \in ConvInstances :
          Len(conv[c].output) = Len(SpikeSinkConvolution_spike_response)

(* a sink whose buffer went through a spike and through a tick *)
C13_Witness ==
    \E c \in ConvInstances : conv[c].n_spikes >= 1 /\ conv[c].n_ticks >= 1

(* C14: on_update of SpikeSinkConvolution returns the head of the buffer; *)
(* the new buffer is the old one without its head followed by 1, so its   *)
(* sum is the old sum minus the returned value plus 1; the outcome is the *)
(* same for every sim_time and every current output.                      *)
C14_TickShifts ==
    [][\A c \in ConvInstances :
          (\E t \in SpikeTimes : ConvTick(c, t)) =>
              /\ conv'[c].ros_value = Some(Head(conv[c].output))
              /\ Last(SpikeSinkConvolution_ros_values') = Head(conv[c].output)
              /\ conv'[c].output = Append(Tail(conv[c].output), 1)
              /\ SumSeq(conv'[c].output) =
                    SumSeq(conv[c].output) - Val(conv'[c].ros_value) + 1
              /\ \A t \in SpikeTimes : ConvTick(c, t)]_vars

(* a tick has returned the head of a buffer that a spike had convolved *)
C14_Witness ==
    \E c \in ConvInstances :
        /\ conv[c].n_spikes >= 1
        /\ conv[c].n_ticks >= 1
        /\ conv[c].ros_value \notin {None, Some(1)}

(* the recorded spikes (neuron, position) that lie in the window of t *)
SpikesInWindow(neurons, t) ==
    {p \in (1..Len(neurons)) \X (1..Cardinality(TimeStamps)) :
        /\ p[2] <= Len(neurons[p[1]].spike_times)
        /\ t - 100 < neurons[p[1]].spike_times[p[2]]}

(* C15: on_update of SpikeSinkSpikesPerWindow returns the number of       *)
(* recorded time stamps t, over all neurons, with sim_time - 100 < t, and *)
(* counts no other; for the single history 10, 50, 150, 205 at sim_time   *)
(* 200 it returns 2; the result does not depend on the current output.    *)
C15_WindowCount ==
    [][\A t \in SimTimes :
          WindowTick(t) =>
              /\ win'.ros_value =
                    Some(Cardinality(SpikesInWindow(win.neurons, t)))
              /\ (/\ t = 200
                  /\ win.neurons = <<[spike_times |-> <<10, 50, 150, 205>>]>>)
                 => win'.ros_value = Some(2)]_vars

(* the history 10, 50, 150, 205 has been counted at a tick *)
C15_Witness ==
    /\ win.neurons = <<[spike_times |-> <<10, 50, 150, 205>>]>>
    /\ win.ros_value = Some(2)

(* the served requests of one policy *)
AnswersOf(policy) ==
    {p \in 1..Len(answers) : answers[p].policy = policy}

(* C16: SpikeSourceConstantRate.on_update returns absent when the input   *)
(* is absent or <= 0, and otherwise returns the input value itself.       *)
C16_ConstantRate ==
    \A p \in AnswersOf("SpikeSourceConstantRate") :
        LET v == answers[p].ros_value IN
        IF v = None THEN answers[p].interval = None
        ELSE IF Val(v).num <= 0 THEN answers[p].interval = None
        ELSE answers[p].interval = v

(* requests with a positive, a zero and an absent input have been served *)
C16_Witness ==
    /\ \E p \in AnswersOf("SpikeSourceConstantRate") :
          answers[p].ros_value = Some(Rat(3, 2))
    /\ \E p \in AnswersOf("SpikeSourceConstantRate") :
          answers[p].ros_value = Some(Rat(0, 1))
    /\ \E p \in AnswersOf("SpikeSourceConstantRate") :
          answers[p].ros_value = None

(* C17: for every input value c, SpikeSourceNumNeurons.on_update returns  *)
(* 1000 for neuron index i exactly when i < c and absent otherwise; an    *)
(* absent input disables every neuron.                                    *)
C17_IndexBelowCount ==
    \A p \in AnswersOf("SpikeSourceNumNeurons") :
        LET c == answers[p].ros_value
            i == answers[p].neuron
        IN  IF c # None /\ RatLess(Rat(i, 1), Val(c))
            THEN answers[p].interval = Some(1000)
            ELSE answers[p].interval = None

(* C17, amended: SpikeSourceNumNeurons.on_update returns 1000 for neuron  *)
(* index i exactly when i + 1 <= c, which is i < c when c is an integer,  *)
(* and absent otherwise; an absent input disables every neuron.           *)
C17_IndexPlusOneWithinCount ==
    \A p \in AnswersOf("SpikeSourceNumNeurons") :
        LET c == answers[p].ros_value
            i == answers[p].neuron
        IN  /\ answers[p].interval \in {None, Some(1000)}
            /\ answers[p].interval = Some(1000)
                  <=> (c # None /\ (i + 1) * Val(c).den <= Val(c).num)
            /\ (c # None /\ Val(c).den = 1)
                  => (answers[p].interval = Some(1000) <=> i < Val(c).num)

(* the count 3/2 has enabled neuron 0 and left neuron 1 disabled *)
C17_Witness ==
    /\ \E p \in AnswersOf("SpikeSourceNumNeurons") :
          /\ answers[p].ros_value = Some(Rat(3, 2))
          /\ answers[p].neuron = 0
          /\ answers[p].interval = Some(1000)
    /\ \E p \in AnswersOf("SpikeSourceNumNeurons") :
          /\ answers[p].ros_value = Some(Rat(3, 2))
          /\ answers[p].neuron = 1
          /\ answers[p].interval = None

(* the request served at position p of the log, without its answer *)
RequestAt(p) ==
    <<answers[p].policy, answers[p].ros_value, answers[p].neuron,
      answers[p].n_neurons>>

C18_PoissonRequest ==
    [][\A s \in SourceInstances, v \in RosValues, k \in NeuronIds :
          \A d \in Draws(v) :
              PoissonRequest(s, v, k, d) =>
                  IF v = None
                  THEN /\ source_out'[s] = None
                       /\ intervals(s)' = intervals(s)
                  ELSE IF Val(v) <= 0
                  THEN /\ source_out'[s] = None
                       /\ intervals(s)' = intervals(s)
                  ELSE /\ source_out'[s] # None
                       /\ Val(source_out'[s]) \in Nat
                       /\ intervals(s)' =
                             Append(intervals(s), <<Val(source_out'[s]), k>>)
      ]_vars

(* of two requests served, one returned absent and one appended a record *)
C18_Witness ==
    /\ requests = 2
    /\ Len(SpikeSourcePoisson_intervals) = 1
    /\ \E s \in SourceInstances : source_out[s] = None

(* C20: the value returned by on_spike of a built-in sink policy is never *)
(* absent, so the current output of a sink is never absent: stated here   *)
(* for the SpikeSinkConvolution and SpikeSinkSpikesPerWindow sinks.       *)
C20_OutputNeverAbsent ==
    /\ \A c \in ConvInstances : conv[c].ros_value # None
    /\ win.ros_value # None

(* the list the engine holds as current output, before and after a step *)
MultiOutput == multi.heap[multi.ros_value]

(* C21: SpikeSinkSmoothingMulti.on_spike for neuron j returns a list      *)
(* equal to the current output except that entry j is larger by exactly   *)
(* 1, and the list it was given is not mutated; on_update returns a list  *)
(* of the same length with every entry multiplied by 0.95; after any      *)
(* spikes and ticks the output has its initial length.                    *)
C21_PerNeuronState ==
    /\ [](Len(MultiOutput) = Len(multi.heap[1]))
    /\ [][\A j \in NeuronIds :
             (\E t \in SpikeTimes : MultiSpike(t, j)) =>
                 /\ Len(MultiOutput') = Len(MultiOutput)
                 /\ \A i \in 1..Len(MultiOutput) :
                       /\ MultiOutput'[i].exp = MultiOutput[i].exp
                       /\ MultiOutput'[i].num =
                             IF i = j + 1
                             THEN MultiOutput[i].num
                                      + Pow(DecayDen, MultiOutput[i].exp)
                             ELSE MultiOutput[i].num
                 /\ \A o \in 1..Len(multi.heap) :
                       multi.heap'[o] = multi.heap[o]]_vars
    /\ [][(\E t \in SpikeTimes : MultiTick(t)) =>
             /\ Len(MultiOutput') = Len(MultiOutput)
             /\ \A i \in 1..Len(MultiOutput) :
                   /\ MultiOutput'[i].exp = MultiOutput[i].exp + 1
                   /\ MultiOutput'[i].num = DecayNum * MultiOutput[i].num
             /\ \A o \in 1..Len(multi.heap) :
                   multi.heap'[o] = multi.heap[o]]_vars

(* after a spike on neuron 0, a tick and a spike on neuron 1, the two     *)
(* entries differ and the initial list is as it was                       *)
C21_Witness ==
    /\ multi.n_ops = 3
    /\ Len(MultiOutput) = 2
    /\ multi.heap[1] = <<Num(1), Num(1)>>
    /\ MultiOutput = <<[num |-> 38, exp |-> 1], [num |-> 39, exp |-> 1]>>

(* sequence s is an initial part of sequence t *)
IsPrefix(s, t) ==
    /\ Len(s) <= Len(t)
    /\ \A k \in 1..Len(s) : s[k] = t[k]

(* C22: on_update of every built-in sink policy leaves the key and the    *)
(* spike_times of every neuron unchanged, so a history only ever grows,   *)
(* by the engine's appends.                                               *)
C22_HistoriesReadOnly ==
    /\ [][(\E t \in SimTimes : HistoryTick(t)) =>
             /\ Len(hist'.neurons) = Len(hist.neurons)
             /\ \A k \in 1..Len(hist.neurons) :
                   /\ hist'.neurons[k].key = hist.neurons[k].key
                   /\ hist'.neurons[k].spike_times =
                         hist.neurons[k].spike_times]_vars
    /\ [][/\ Len(hist'.neurons) = Len(hist.neurons)
          /\ \A k \in 1..Len(hist.neurons) :
                /\ hist'.neurons[k].key = hist.neurons[k].key
                /\ IsPrefix(hist.neurons[k].spike_times,
                            hist'.neurons[k].spike_times)]_vars

(* a tick at 200 has been given a history whose stamps 10 and 50 lie      *)
(* outside the window, and the history is still complete                  *)
C22_Witness ==
    /\ hist.policy = "SpikeSinkSpikesPerWindow"
    /\ hist.sim_time = Some(200)
    /\ hist.neurons[1].spike_times = <<10, 50, 150>>

(* C23: with a single worker, a tick takes at most one pending rate       *)
(* vector; a vector put on the channel is forwarded to set_rates at most  *)
(* once; vectors are forwarded in the order they were received; and if    *)
(* the worker keeps ticking and the arrivals stop, every received vector  *)
(* is eventually forwarded.                                               *)
C23_DeliveryOrder ==
    /\ [][/\ Len(interfaces'[1].queue) >= Len(interfaces[1].queue) - 1
          /\ Len(interfaces'[1].rates_sent) <=
                Len(interfaces[1].rates_sent) + 1]_vars
    /\ [](Len(interfaces[1].rates_sent) + Len(interfaces[1].queue)
              <= received)
    /\ [][/\ SetRatesStep(1) =>
                /\ Last(interfaces'[1].rates_sent) =
                      RatePairs(Head(interfaces[1].queue),
                                interfaces[1].n_neurons)
                /\ interfaces'[1].queue = Tail(interfaces[1].queue)
          /\ Len(interfaces'[1].queue) > Len(interfaces[1].queue) =>
                /\ IsPrefix(interfaces[1].queue, interfaces'[1].queue)
                /\ interfaces'[1].rates_sent = interfaces[1].rates_sent
          /\ Len(interfaces'[1].queue) < Len(interfaces[1].queue) =>
                interfaces'[1].queue = Tail(interfaces[1].queue)]_vars
    /\ \/ <>(workers[1].pc \notin {"start", "loop"})
       \/ <>[](Len(interfaces[1].rates_sent) = received)

(* two vectors that were pending together have both been forwarded, one   *)
(* per tick, and the worker is still in its loop                          *)
C23_Witness ==
    /\ workers[1].pc = "loop"
    /\ received = 2
    /\ interfaces[1].n_neurons = 1
    /\ interfaces[1].queue = <<>>
    /\ interfaces[1].rates_sent = << <<<<0, 1>>>>, <<<<0, 2>>>> >>

(* C24: for a received message msg with at least n_neurons entries, the   *)
(* set_rates call carries exactly n_neurons pairs (i, msg[i]) for         *)
(* i = 0 .. n_neurons - 1, in increasing i, each neuron id once; the      *)
(* entries of msg from index n_neurons on are ignored; n_neurons is the   *)
(* constructor argument, or 1 when it was omitted.                        *)
C24_RatePayload ==
    /\ [][\A i \in Ifaces :
             SetRatesStep(i) =>
                 LET msg == Head(interfaces[i].queue)
                     payload == Last(interfaces'[i].rates_sent)
                 IN  /\ Len(msg) >= interfaces[i].n_neurons
                     /\ Len(payload) = interfaces[i].n_neurons
                     /\ \A k \in 0..(interfaces[i].n_neurons - 1) :
                           payload[k + 1] = <<k, msg[k + 1]>>]_vars
    /\ [][instance_counter' # instance_counter =>
             \A n_arg \in NeuronArgs :
                 Construct(n_arg, Some("poisson_input")) =>
                     Last(interfaces').n_neurons =
                         IF n_arg = None THEN 1 ELSE Val(n_arg)]_vars

(* an interface of one neuron has forwarded the first entry of a message  *)
(* of two entries                                                         *)
C24_Witness ==
    \E w \in 1..Len(workers) :
        /\ workers[w].ros_msg = Some(<<1, 2>>)
        /\ interfaces[workers[w].iface].n_neurons = 1
        /\ interfaces[workers[w].iface].rates_sent = << <<<<0, 1>>>> >>

====
